---------------------------- MODULE Spec2Model ----------------------------
(***************************************************************************)
(* The car-inventory assistant of NerZ98/Cars: the Record Store            *)
(* (CarDatabase), the Generation Pipeline (CarAPI.generate_cars,           *)
(* CarAPI.generate_cars_from_request), the Query Pipeline                  *)
(* (CarAPI.chat_query) and the front ends that call them (the Flask routes *)
(* of app.py, the terminal loops of cars.py and cars2.py).                 *)
(*                                                                         *)
(* Conventions of the model:                                               *)
(*  - a Python str is a sequence of one-character strings;                 *)
(*  - a Python dict is a function whose DOMAIN is the dict's key set;      *)
(*  - an optional value (a key that may be absent, a JSON value that may   *)
(*    be null) is a set with at most one element;                          *)
(*  - the language model and the database connection are the environment:  *)
(*    the model's reply and the reachability of the store are inputs of    *)
(*    each request.                                                        *)
(***************************************************************************)
EXTENDS Integers, Sequences, FiniteSets, TLC

(***************************************************************************)
(* Bounds of the model.                                                    *)
(***************************************************************************)
\* The store holds at most this many documents: a generation request that
\* would go beyond is not taken, and the language model writes arrays of at
\* most this many cars.
MaxStore == 2

VARIABLES
    store,      \* CarDatabase.cars: the collection, in insertion order
    clock,      \* datetime.datetime.utcnow(): the number of stamps stored
    nextOid,    \* the number of ObjectIds generated so far
    last,       \* what the last request returned to its caller
    session     \* the terminal program at its input prompt, or "ended"

vars == <<store, clock, nextOid, last, session>>

(***************************************************************************)
(* Strings.                                                                *)
(***************************************************************************)
UpperCase == <<"A","B","C","D","E","F","G","H","I","J","K","L","M",
               "N","O","P","Q","R","S","T","U","V","W","X","Y","Z">>
LowerCase == <<"a","b","c","d","e","f","g","h","i","j","k","l","m",
               "n","o","p","q","r","s","t","u","v","w","x","y","z">>

\* The lower-case letter of each upper-case letter.
LowerOf == [c \in {UpperCase[i] : i \in 1..26} |->
               LowerCase[CHOOSE i \in 1..26 : UpperCase[i] = c]]

\* str.lower() of one character.
LowerChar(c) == IF c \in DOMAIN LowerOf THEN LowerOf[c] ELSE c

\* str.lower().
Lower(s) == [i \in 1..Len(s) |-> LowerChar(s[i])]

Digits == <<"0","1","2","3","4","5","6","7","8","9">>

\* The value of each decimal digit.
DigitValue == [c \in {Digits[i] : i \in 1..10} |->
                  (CHOOSE i \in 1..10 : Digits[i] = c) - 1]

IsDigit(c) == c \in DOMAIN DigitValue

DigitVal(c) == DigitValue[c]

\* int(s) accepts s: a non-empty run of decimal digits (signs, blanks and
\* underscores, which int() also accepts, are not among the inputs).
IntParses(s) == Len(s) > 0 /\ \A i \in 1..Len(s) : IsDigit(s[i])

RECURSIVE IntOf(_)
\* int(s) for a string int() accepts.
IntOf(s) ==
    IF Len(s) = 0 THEN 0
    ELSE 10 * IntOf(SubSeq(s, 1, Len(s) - 1)) + DigitVal(s[Len(s)])

(***************************************************************************)
(* The $regex operator of the store, over the patterns the program builds: *)
(* literal characters and the alternation bar.                             *)
(***************************************************************************)
RECURSIVE Alternatives(_)
\* The alternatives of a pattern: its pieces between the bars.
Alternatives(p) ==
    IF \A i \in 1..Len(p) : p[i] # "|" THEN <<p>>
    ELSE LET k == CHOOSE i \in 1..Len(p) :
                    p[i] = "|" /\ \A j \in 1..(i - 1) : p[j] # "|"
         IN  <<SubSeq(p, 1, k - 1)>> \o Alternatives(SubSeq(p, k + 1, Len(p)))

\* The literal a occurs in s at offset i, letter case ignored ($options: 'i').
OccursAt(a, s, i) ==
    /\ i + Len(a) - 1 <= Len(s)
    /\ \A k \in 1..Len(a) : LowerChar(s[i + k - 1]) = LowerChar(a[k])

\* {'$regex': p, '$options': 'i'} matches the string s: an unanchored search
\* for any of the alternatives.
RegexSearch(p, s) ==
    \E a \in {Alternatives(p)[n] : n \in 1..Len(Alternatives(p))} :
        \E i \in 1..(Len(s) + 1) : OccursAt(a, s, i)

(***************************************************************************)
(* bson.ObjectId.                                                          *)
(***************************************************************************)
\* The length of an ObjectId's hexadecimal string.
OidLen == 24

IsHex(c) == IsDigit(c) \/ LowerChar(c) \in {"a", "b", "c", "d", "e", "f"}

\* ObjectId(s) accepts the string s (it raises InvalidId otherwise).
ObjectIdValid(s) == Len(s) = OidLen /\ \A i \in 1..Len(s) : IsHex(s[i])

\* str(ObjectId(s)) for a string ObjectId() accepts.
ObjectIdOf(s) == Lower(s)

\* The n-th identifier the driver generates for a document without one.
NewOid(n) == [i \in 1..OidLen |-> IF i < OidLen THEN "0" ELSE Digits[n + 1]]

(***************************************************************************)
(* Python values.                                                          *)
(***************************************************************************)
\* d[k] = v on a dict.
With(d, k, v) == [x \in DOMAIN d \cup {k} |-> IF x = k THEN v ELSE d[x]]

\* bool(x) of an optional integer: None and 0 are falsy.
TruthyInt(x) == x # {} /\ x # {0}

\* bool(x) of an optional string or list: None and the empty one are falsy.
TruthySeq(x) == x # {} /\ x # {<<>>}

Toyota    == <<"T","o","y","o","t","a">>
Honda     == <<"H","o","n","d","a">>
Ford      == <<"F","o","r","d">>
Rover     == <<"R","o","v","e","r">>
LandRover == <<"L","a","n","d"," ","R","o","v","e","r">>

\* The car objects the language model writes: three of the requested shape
\* (one of them of the extended shape of cars2.py) and one without a cost.
Camry    == [brand |-> Toyota, model |-> <<"C","a","m","r","y">>,
             year |-> 2018, mileage |-> 45000, cost |-> 18500]
Civic    == [brand |-> Honda, model |-> <<"C","i","v","i","c">>,
             year |-> 2015, mileage |-> 60000, cost |-> 12000]
Defender == [brand |-> LandRover, model |-> <<"D","e","f">>,
             year |-> 2020, mileage |-> 10000, cost |-> 52000,
             category |-> <<"S","U","V">>, origin |-> <<"U","K">>]
Focus    == [brand |-> Ford, model |-> <<"F","o","c","u","s">>,
             year |-> 2012, mileage |-> 90000]

ModelCars == {Camry, Civic, Defender, Focus}

RECURSIVE SeqsUpTo(_, _)
\* The sequences over S of length at most n.
SeqsUpTo(S, n) ==
    IF n = 0 THEN {<<>>}
    ELSE LET shorter == SeqsUpTo(S, n - 1)
         IN  shorter \cup {Append(q, x) : q \in shorter, x \in S}

RECURSIVE Join(_, _)
\* sep.join(parts)
Join(sep, parts) ==
    IF parts = <<>> THEN <<>>
    ELSE IF Len(parts) = 1 THEN parts[1]
    ELSE parts[1] \o sep \o Join(sep, Tail(parts))

(***************************************************************************)
(* The language model (LLMChain.invoke) and json.loads of its text.        *)
(*   kind "fail":   invoke raises;                                         *)
(*   kind "text":   the text is not JSON;                                  *)
(*   kind "array":  the text is a JSON array of the objects in items;      *)
(*   kind "object": the text is a JSON object (chat and interpreter        *)
(*                  prompts);                                              *)
(*   kind "other":  the text is JSON of another type than the prompt asks  *)
(*                  for.                                                   *)
(***************************************************************************)
GenReply(kind, items) == [kind |-> kind, items |-> items]

\* The replies to the two generation prompts, with arrays of at most n cars.
GenReplies(n) ==
    {GenReply(k, <<>>) : k \in {"fail", "text", "other"}}
    \cup {GenReply("array", q) : q \in SeqsUpTo(ModelCars, n)}

\* The store is reachable (TRUE) or not (FALSE) while a request is served;
\* only a request that gets as far as the store can tell.
Reachability(reaches) == IF reaches THEN BOOLEAN ELSE {TRUE}

\* insert_many gets as far as the driver's write.
Writes(reply) == reply.kind = "array" /\ reply.items # <<>>

\* The replies to the interpreter prompt of cars2.py: keys are the keys of
\* the JSON object.
ParamKeys == {"num_cars", "year_start", "year_end", "categories", "regions",
              "specifications"}

InterpReplies ==
    {[kind |-> k, keys |-> {}] : k \in {"fail", "text"}}
    \cup {[kind |-> "object", keys |-> ks] : ks \in {ParamKeys, {"num_cars"}}}

\* The keys of the JSON object the chat prompt asks for.
ChatKeys == {"query_interpretation", "suggested_filters", "explanation",
             "car_count", "market_insights"}

\* suggested_filters of a chat reply: each value is null (the empty set) or
\* given (a one-element set).
Suggested(brands, year_min, year_max, max_cost) ==
    [brands |-> brands, year_min |-> year_min, year_max |-> year_max,
     max_cost |-> max_cost]

NoSuggestion == Suggested({}, {}, {}, {})

ChatReply(kind, keys, suggested) ==
    [kind |-> kind, keys |-> keys, suggested |-> suggested]

BrandLists == {{}, {<<>>}, {<<Toyota, Honda>>}, {<<Rover>>}}

\* The replies to the chat prompt: the object asked for, the same with a
\* "statistics" key of the model's own, and the failures.
ChatReplies ==
    {ChatReply(k, {}, NoSuggestion) : k \in {"fail", "text", "other"}}
    \cup {ChatReply("object", ChatKeys, Suggested(b, lo, hi, {})) :
             b \in BrandLists, lo \in {{}, {0}, {2015}}, hi \in {{}, {2018}}}
    \cup {ChatReply("object", ChatKeys, Suggested(b, {}, {}, {15000})) :
             b \in BrandLists}
    \cup {ChatReply("object", ChatKeys \cup {"statistics"},
                    Suggested(b, {}, hi, {})) :
             b \in BrandLists, hi \in {{}, {0}}}
    \cup {ChatReply("object", {"suggested_filters"}, NoSuggestion)}

(***************************************************************************)
(* CarDatabase.                                                            *)
(***************************************************************************)
\* A find_all filter (query_params): each key is present (a one-element set)
\* or absent (the empty set).
Filter(brand, year_min, year_max) ==
    [brand |-> brand, year_min |-> year_min, year_max |-> year_max]

NoFilter == Filter({}, {}, {})

\* The brand values of the query string of GET /cars.
BrandArgs == {<<>>, <<"t","o","y">>,
              <<"t","o","y","o","t","a","|","h","o","n","d","a">>}

\* RegexSearch on the patterns and the brands that the inputs of the model
\* give, computed once.
RegexTable ==
    [p \in (BrandArgs \ {<<>>})
             \cup {Join(<<"|">>, b) : b \in UNION BrandLists} |->
        {s \in {c.brand : c \in ModelCars} : RegexSearch(p, s)}]

\* RegexSearch, looked up in RegexTable where the table has the pattern.
Search(p, s) ==
    IF p \in DOMAIN RegexTable /\ s \in {c.brand : c \in ModelCars}
    THEN s \in RegexTable[p]
    ELSE RegexSearch(p, s)

\* A faulty variant of BrandMatches: the search without '$options': 'i'.
BrandMatchesCased(doc, qp) ==
    qp.brand # {} =>
        /\ "brand" \in DOMAIN doc
        /\ \A p \in qp.brand :
              \E a \in {Alternatives(p)[n] : n \in 1..Len(Alternatives(p))} :
                \E i \in 1..(Len(doc.brand) + 1) :
                    /\ i + Len(a) - 1 <= Len(doc.brand)
                    /\ \A k \in 1..Len(a) : doc.brand[i + k - 1] = a[k]

\* query['brand'] = {'$regex': ..., '$options': 'i'} on a document.
BrandMatches(doc, qp) ==
    qp.brand # {} =>
        "brand" \in DOMAIN doc /\ \A p \in qp.brand : Search(p, doc.brand)

\* A faulty variant of YearInRange: $gt and $lt for $gte and $lte.
YearInRangeOpen(doc, qp) ==
    /\ qp.year_min # {} =>
        "year" \in DOMAIN doc /\ \A y \in qp.year_min : doc.year > y
    /\ qp.year_max # {} =>
        "year" \in DOMAIN doc /\ \A y \in qp.year_max : doc.year < y

\* query['year'] = {'$gte': year_min, '$lte': year_max} on a document.
YearInRange(doc, qp) ==
    /\ qp.year_min # {} =>
        "year" \in DOMAIN doc /\ \A y \in qp.year_min : doc.year >= y
    /\ qp.year_max # {} =>
        "year" \in DOMAIN doc /\ \A y \in qp.year_max : doc.year <= y

\* CarDatabase.find_all on a reachable store.
find_all(docs, qp) ==
    SelectSeq(docs, LAMBDA d : BrandMatches(d, qp) /\ YearInRange(d, qp))

\* The documents insert_many writes: each car stamped with the time of its
\* own utcnow() call, and given the next identifier by the driver.
Stamped(items, now, oid) ==
    [i \in 1..Len(items) |->
        With(With(items[i], "timestamp", now + i - 1), "_id",
             NewOid(oid + i - 1))]

\* CarDatabase.insert_many: the exception it re-raises ("none": it returns).
\* The stamping loop needs a list of dicts, the driver a non-empty list
\* (TypeError otherwise) and a reachable server.
insert_many_fault(reply, up) ==
    IF reply.kind # "array" \/ reply.items = <<>> THEN "TypeError"
    ELSE IF ~up THEN "store"
    ELSE "none"

\* CarDatabase.find_one: the exception it raises ("none": it returns).
find_one_fault(car_id, up) ==
    IF ~ObjectIdValid(car_id) THEN "InvalidId"
    ELSE IF ~up THEN "store"
    ELSE "none"

\* CarDatabase.find_one when it returns: the document, or None (no element).
find_one(docs, car_id) ==
    SelectSeq(docs, LAMBDA d : d["_id"] = ObjectIdOf(car_id))

(***************************************************************************)
(* What a request returned to its caller.                                  *)
(*   op:        the operation;                                             *)
(*   status:    the HTTP status, or what the terminal printed ("shown":    *)
(*              the result, "error": an error message, "validation": the   *)
(*              request for valid numbers);                                *)
(*   fault:     the exception raised inside ("none": none);                *)
(*   arg:       the identifier asked for (GET /car);                       *)
(*   filter:    the query_params given to find_all;                        *)
(*   replies:   the kinds of the language model's replies, in order;       *)
(*   suggested: the suggested_filters of the model's reply (chat_query);   *)
(*   batch:     the parsed array given to insert_many;                     *)
(*   cars:      the records returned (by insert_many, find_all, find_one,  *)
(*              or as matching_cars);                                      *)
(*   keys:      the keys of the response object;                           *)
(*   stats:     the value of its "statistics" key, if it has one;          *)
(*   trace:     the calls made to the model, the parser and the store;     *)
(*   front:     the terminal program that served the request, if one did;  *)
(*   line:      the line typed at its prompt.                              *)
(***************************************************************************)
Outcome(op) ==
    [keys |-> {}, suggested |-> NoSuggestion, op |-> op, status |-> "none",
     fault |-> "none", arg |-> <<>>, filter |-> NoFilter, replies |-> <<>>,
     batch |-> <<>>, cars |-> <<>>, stats |-> <<>>, trace |-> <<>>,
     front |-> "none", line |-> <<>>]

\* The two terminal programs.
Programs == {"cars.py", "cars2.py"}

Init ==
    /\ store = <<>>
    /\ clock = 1
    /\ nextOid = 0
    /\ last = Outcome("none")
    /\ session \in Programs

(***************************************************************************)
(* CarAPI.generate_cars (app.py, cars.py).                                 *)
(***************************************************************************)
\* The exception generate_cars re-raises ("none": it returns the parsed value).
generate_cars_fault(reply) ==
    CASE reply.kind = "fail" -> "model"
      [] reply.kind = "text" -> "json"
      [] OTHER -> "none"

\* The calls of generate_cars and of the insert_many that follows it.
GenTrace(reply) ==
    IF reply.kind = "fail" THEN <<"llm.invoke">>
    ELSE IF reply.kind = "text" THEN <<"llm.invoke", "json.loads">>
    ELSE <<"llm.invoke", "json.loads", "store.insert_many">>

\* A faulty variant of Inserted: the documents replace the collection.
InsertedOnly(docs) == docs

\* The collection after the driver wrote docs.
Inserted(docs) == store \o docs

\* generate_cars, then insert_many on what it returned, as the three front
\* ends call them: the outcome (base with the fields the calls set), and
\* the store written when both return.
\* okStatus and badStatus are what the front end answers; rendered tells
\* whether it can print the stored cars.
GenerateAndStore(base, reply, up, okStatus, badStatus, rendered) ==
    \E gfault \in {generate_cars_fault(reply)},
       ifault \in {insert_many_fault(reply, up)},
       docs \in {Stamped(reply.items, clock, nextOid)} :
        IF gfault # "none"
        THEN /\ last' = [base EXCEPT
                            !.status = badStatus[gfault], !.fault = gfault,
                            !.replies = <<reply.kind>>, !.keys = {"error"},
                            !.trace = GenTrace(reply)]
             /\ UNCHANGED <<store, clock, nextOid, session>>
        ELSE IF ifault # "none"
        THEN /\ last' = [base EXCEPT
                            !.status = badStatus[ifault], !.fault = ifault,
                            !.replies = <<reply.kind>>,
                            !.batch = reply.items, !.keys = {"error"},
                            !.trace = GenTrace(reply)]
             /\ UNCHANGED <<store, clock, nextOid, session>>
        ELSE /\ store' = Inserted(docs)
             /\ UNCHANGED session
             /\ clock' = clock + Len(docs)
             /\ nextOid' = nextOid + Len(docs)
             /\ last' = [base EXCEPT
                            !.status = IF rendered THEN okStatus
                                       ELSE badStatus["KeyError"],
                            !.fault = IF rendered THEN "none"
                                      ELSE "KeyError",
                            !.replies = <<reply.kind>>,
                            !.batch = reply.items, !.cars = docs,
                            !.keys = IF rendered THEN {"message", "cars"}
                                     ELSE {"error"},
                            !.trace = GenTrace(reply)]

Faults == {"model", "json", "TypeError", "store", "KeyError", "ValueError",
           "AttributeError", "InvalidId"}

(***************************************************************************)
(* The Flask routes of app.py.                                             *)
(***************************************************************************)
\* jsonify with the JSONEncoder of app.py serialises every stored car.
Serialisable(docs) == TRUE

\* The num_cars of the JSON body of POST /generate_cars: a number, or a
\* string that is none (the decimal text stands for the number).
PostCounts == {<<"3">>, <<"a","b","c">>}

\* POST /generate_cars: data.get('num_cars', 10) goes to generate_cars as
\* it is.
GenerateCarsRoute ==
    \E num_cars \in PostCounts :
      \E reply \in GenReplies(MaxStore - Len(store)) :
        \E up \in Reachability(Writes(reply)) :
            GenerateAndStore([Outcome("POST /generate_cars") EXCEPT
                                 !.arg = num_cars],
                             reply, up, "200", [f \in Faults |-> "500"],
                             Serialisable(Stamped(reply.items, clock,
                                                  nextOid)))

\* The year values of the query string of GET /cars.
YearMinArgs == {<<>>, <<"0">>, <<"2","0","1","5">>, <<"a","b","c">>}
YearMaxArgs == {<<>>, <<"2","0","1","8">>, <<"x">>}

\* The query strings of GET /cars: every combination of values that are
\* numbers, and each value that is none with the others not given.
QueryStrings ==
    {q \in BrandArgs \X YearMinArgs \X YearMaxArgs :
        \/ (q[2] = <<>> \/ IntParses(q[2])) /\ (q[3] = <<>> \/ IntParses(q[3]))
        \/ q[1] = <<>> /\ (q[2] = <<>> \/ q[3] = <<>>)}

\* The query_params get_cars builds from the query string: a key is set when
\* its argument is given and not empty.
QueryParams(brand, year_min, year_max) ==
    Filter(IF brand # <<>> THEN {brand} ELSE {},
           IF year_min # <<>> THEN {IntOf(year_min)} ELSE {},
           IF year_max # <<>> THEN {IntOf(year_max)} ELSE {})

\* GET /cars
GetCarsRoute ==
    \E q \in QueryStrings :
      \E brand \in {q[1]}, year_min \in {q[2]}, year_max \in {q[3]} :
        \E up \in Reachability(year_min = <<>>) :
            /\ last' =
                 IF \/ year_min # <<>> /\ ~IntParses(year_min)
                    \/ year_max # <<>> /\ ~IntParses(year_max)
                 THEN [Outcome("GET /cars") EXCEPT
                          !.status = "500", !.fault = "ValueError",
                          !.arg = <<year_min, year_max>>,
                          !.keys = {"error"}]
                 ELSE IF ~up
                 THEN [Outcome("GET /cars") EXCEPT
                          !.status = "500", !.fault = "store",
                          !.arg = <<year_min, year_max>>,
                          !.filter = QueryParams(brand, year_min, year_max),
                          !.keys = {"error"}, !.trace = <<"store.find">>]
                 ELSE [Outcome("GET /cars") EXCEPT
                          !.status = "200",
                          !.arg = <<year_min, year_max>>,
                          !.filter = QueryParams(brand, year_min, year_max),
                          !.cars = find_all(store, QueryParams(brand, year_min,
                                                               year_max)),
                          !.trace = <<"store.find">>]
            /\ UNCHANGED <<store, clock, nextOid, session>>

\* The identifiers GET /car/<car_id> is asked for: those the driver may have
\* assigned, and two that are no ObjectId.
CarIds ==
    {NewOid(n) : n \in 0..MaxStore}
    \cup {<<"a","b","c">>, [i \in 1..OidLen |-> "z"]}

\* GET /car/<car_id>
GetCarRoute ==
    \E car_id \in CarIds :
        \E up \in Reachability(car_id = NewOid(0) \/ ~ObjectIdValid(car_id)) :
            \E fault \in {find_one_fault(car_id, up)} :
                /\ last' =
                     IF fault # "none"
                     THEN [Outcome("GET /car") EXCEPT
                              !.status = "500", !.fault = fault,
                              !.arg = car_id, !.keys = {"error"},
                              !.trace = IF fault = "store"
                                        THEN <<"store.find_one">> ELSE <<>>]
                     ELSE IF find_one(store, car_id) # <<>>
                     THEN [Outcome("GET /car") EXCEPT
                              !.status = "200", !.arg = car_id,
                              !.cars = find_one(store, car_id),
                              !.trace = <<"store.find_one">>]
                     ELSE [Outcome("GET /car") EXCEPT
                              !.status = "404", !.arg = car_id,
                              !.keys = {"error"},
                              !.trace = <<"store.find_one">>]
                /\ UNCHANGED <<store, clock, nextOid, session>>

(***************************************************************************)
(* CarAPI.chat_query (cars.py, cars2.py).                                  *)
(***************************************************************************)
RECURSIVE SumCost(_)
\* sum(costs)
SumCost(cars) ==
    IF cars = <<>> THEN 0 ELSE cars[1].cost + SumCost(Tail(cars))

\* min(costs)
MinCost(cars) ==
    CHOOSE c \in {cars[i].cost : i \in 1..Len(cars)} :
        \A j \in 1..Len(cars) : c <= cars[j].cost

\* max(costs)
MaxCost(cars) ==
    CHOOSE c \in {cars[i].cost : i \in 1..Len(cars)} :
        \A j \in 1..Len(cars) : c >= cars[j].cost

\* response_data['statistics']. The quotient sum(costs) / len(costs) is kept
\* as the fraction num/den: the costs are integers, so the sum is exact and
\* the float quotient compares with an integer as the fraction does.
Statistics(cars) ==
    [average_cost  |-> [num |-> SumCost(cars), den |-> Len(cars)],
     lowest_cost   |-> MinCost(cars),
     highest_cost  |-> MaxCost(cars),
     total_matches |-> Len(cars)]

\* The value of a "statistics" key that the model's own reply carries.
ReplyStatistics ==
    [average_cost  |-> [num |-> 30000, den |-> 1],
     lowest_cost   |-> 20000,
     highest_cost  |-> 10000,
     total_matches |-> 7]

\* A faulty variant of DerivedFilter: the brands joined by a comma.
DerivedFilterComma(f) ==
    Filter(IF TruthySeq(f.brands)
               THEN {Join(<<",">>, b) : b \in f.brands} ELSE {},
           IF TruthyInt(f.year_min) THEN f.year_min ELSE {},
           IF TruthyInt(f.year_max) THEN f.year_max ELSE {})

\* The query_params chat_query derives from suggested_filters: a key is set
\* when its value is truthy.
DerivedFilter(f) ==
    Filter(IF TruthySeq(f.brands)
               THEN {Join(<<"|">>, b) : b \in f.brands} ELSE {},
           IF TruthyInt(f.year_min) THEN f.year_min ELSE {},
           IF TruthyInt(f.year_max) THEN f.year_max ELSE {})

\* Some car of the list has no cost: car['cost'] raises KeyError.
Unpriced(cars) == \E i \in 1..Len(cars) : "cost" \notin DOMAIN cars[i]

\* A faulty variant of chat_query_trace: the model is asked a second time
\* when it fails.
chat_query_trace_retry(reply, up) ==
    IF ~up THEN <<"store.find">>
    ELSE IF reply.kind = "fail"
    THEN <<"store.find", "llm.invoke", "llm.invoke">>
    ELSE IF reply.kind # "object"
    THEN <<"store.find", "llm.invoke", "json.loads">>
    ELSE <<"store.find", "llm.invoke", "json.loads", "store.find">>

\* The calls chat_query makes, in order, up to the one that raises.
chat_query_trace(reply, up) ==
    IF ~up THEN <<"store.find">>
    ELSE IF reply.kind = "fail" THEN <<"store.find", "llm.invoke">>
    ELSE IF reply.kind # "object"
    THEN <<"store.find", "llm.invoke", "json.loads">>
    ELSE <<"store.find", "llm.invoke", "json.loads", "store.find">>

\* chat_query raised fault.
chat_query_raises(fault, reply, up) ==
    [Outcome("chat_query") EXCEPT
        !.status = "error", !.fault = fault,
        !.replies = IF up THEN <<reply.kind>> ELSE <<>>,
        !.keys = {"error"}, !.trace = chat_query_trace(reply, up)]

\* chat_query from the second find_all on: the statistics and the response.
chat_response(reply, qp, matching) ==
    IF Unpriced(matching)
    THEN chat_query_raises("KeyError", reply, TRUE)
    ELSE [Outcome("chat_query") EXCEPT
            !.status = "shown", !.filter = qp,
            !.replies = <<reply.kind>>, !.suggested = reply.suggested,
            !.cars = matching,
            !.keys = reply.keys \cup {"matching_cars"}
                       \cup (IF matching # <<>> THEN {"statistics"} ELSE {}),
            !.stats = IF matching # <<>> THEN <<Statistics(matching)>>
                      ELSE IF "statistics" \in reply.keys
                      THEN <<ReplyStatistics>>
                      ELSE <<>>,
            !.trace = chat_query_trace(reply, TRUE)]

\* A faulty variant of chat_query: the matches are cut at the suggested
\* max_cost.
chat_query_capped(docs, reply, up) ==
    IF ~up THEN chat_query_raises("store", reply, up)
    ELSE IF reply.kind = "fail" THEN chat_query_raises("model", reply, up)
    ELSE IF reply.kind = "text" THEN chat_query_raises("json", reply, up)
    ELSE IF reply.kind # "object"
    THEN chat_query_raises("AttributeError", reply, up)
    ELSE CHOOSE r \in
            {chat_response(reply, qp,
                 SelectSeq(find_all(docs, qp),
                           LAMBDA d : \A m \in reply.suggested.max_cost :
                                         "cost" \in DOMAIN d => d.cost <= m)) :
                qp \in {DerivedFilter(reply.suggested)}} : TRUE

\* What chat_query gives its caller: the response, or the exception it
\* re-raises (the store is read first, then the model is asked, then its
\* text is parsed, then .get is called on the parsed value).
chat_query(docs, reply, up) ==
    IF ~up THEN chat_query_raises("store", reply, up)
    ELSE IF reply.kind = "fail" THEN chat_query_raises("model", reply, up)
    ELSE IF reply.kind = "text" THEN chat_query_raises("json", reply, up)
    ELSE IF reply.kind # "object"
    THEN chat_query_raises("AttributeError", reply, up)
    ELSE CHOOSE r \in
            {chat_response(reply, qp, find_all(docs, qp)) :
                qp \in {DerivedFilter(reply.suggested)}} : TRUE

(***************************************************************************)
(* The terminal front ends.                                                *)
(***************************************************************************)
\* format_car_info (cars.py) reads these keys of a car.
InfoKeys == {"year", "brand", "model", "cost", "mileage"}

\* format_car_info_detailed (cars2.py) reads these keys of a car.
DetailedKeys == InfoKeys \cup {"category", "origin"}

\* format_car_info prints every car of the list (no KeyError).
Printable(cars) == \A i \in 1..Len(cars) : InfoKeys \subseteq DOMAIN cars[i]

\* format_car_info_detailed prints every car of the list (no KeyError).
PrintableDetailed(cars) ==
    \A i \in 1..Len(cars) : DetailedKeys \subseteq DOMAIN cars[i]

\* The lines typed at the prompt of main of each program, stripped.
Lines(program) ==
    {<<>>, <<"E","x","i","t">>, <<"h","e","l","p">>, <<"c","l","e","a","r">>,
     <<"r","e","m","a","k","e">>}
    \cup (IF program = "cars.py"
          THEN {<<"g","e","n","e","r","a","t","e">>}
          ELSE {<<"s","u","v">>})

\* word in user_input.lower()
Within(word, s) ==
    \E i \in 0..(Len(s) - Len(word)) : SubSeq(s, i + 1, i + Len(word)) = word

\* ['generate', 'create', 'make'] of main (cars2.py)
Verbs == {<<"g","e","n","e","r","a","t","e">>, <<"c","r","e","a","t","e">>,
          <<"m","a","k","e">>}

\* A faulty variant of Handler: cars2.py takes a line for a generation
\* request when it is one of the verbs, not when it contains one.
HandlerOfVerbLines(program, line) ==
    IF line = <<>> THEN "empty"
    ELSE IF Lower(line) = <<"e","x","i","t">> THEN "exit"
    ELSE IF Lower(line) = <<"h","e","l","p">> THEN "help"
    ELSE IF Lower(line) = <<"c","l","e","a","r">> THEN "clear"
    ELSE IF program = "cars.py"
    THEN IF Lower(line) = <<"g","e","n","e","r","a","t","e">>
         THEN "generate_cars_prompt" ELSE "chat_query"
    ELSE IF Lower(line) \in Verbs
         THEN "generation_request" ELSE "chat_query"

\* The branch of the loop of main that takes the line: the tests of main in
\* their order, for cars.py and for cars2.py.
Handler(program, line) ==
    IF line = <<>> THEN "empty"
    ELSE IF Lower(line) = <<"e","x","i","t">> THEN "exit"
    ELSE IF Lower(line) = <<"h","e","l","p">> THEN "help"
    ELSE IF Lower(line) = <<"c","l","e","a","r">> THEN "clear"
    ELSE IF program = "cars.py"
    THEN IF Lower(line) = <<"g","e","n","e","r","a","t","e">>
         THEN "generate_cars_prompt" ELSE "chat_query"
    ELSE IF \E w \in Verbs : Within(w, Lower(line))
         THEN "generation_request" ELSE "chat_query"

\* The lines that the running program hands to the branch h.
LinesFor(h) ==
    IF session \in Programs
    THEN {line \in Lines(session) : Handler(session, line) = h} ELSE {}

\* A faulty variant of BareCommand: every bare command leaves the loop.
BareCommandLeaving ==
    \E h \in {"empty", "exit", "help", "clear"} :
        \E line \in LinesFor(h) :
            /\ last' = [Outcome(h) EXCEPT
                            !.status = IF h = "empty" THEN "none" ELSE "shown",
                            !.front = session, !.line = line]
            /\ session' = "ended"
            /\ UNCHANGED <<store, clock, nextOid>>

\* The branches of main that call neither pipeline: the empty line, help,
\* clear, and exit, which leaves the loop.
BareCommand ==
    \E h \in {"empty", "exit", "help", "clear"} :
        \E line \in LinesFor(h) :
            /\ last' = [Outcome(h) EXCEPT
                            !.status = IF h = "empty" THEN "none" ELSE "shown",
                            !.front = session, !.line = line]
            /\ session' = IF h = "exit" THEN "ended" ELSE session
            /\ UNCHANGED <<store, clock, nextOid>>

\* input() raises at the prompt: KeyboardInterrupt, which main catches to
\* say goodbye and exit, or EOFError at the end of the input, which nothing
\* catches.
InputRaises ==
    /\ session \in Programs
    /\ \E e \in {"KeyboardInterrupt", "EOFError"} :
          last' = [Outcome(e) EXCEPT
                      !.status = IF e = "EOFError" THEN "crash" ELSE "shown",
                      !.fault = e, !.front = session]
    /\ session' = "ended"
    /\ UNCHANGED <<store, clock, nextOid>>

\* The chat branch of main (cars.py, cars2.py): chat_query, then the
\* printing of the interpretation, the explanation and the first matches
\* (format_car_info in cars.py, format_car_info_detailed in cars2.py).
ChatBranch ==
    \E line \in LinesFor("chat_query") :
      \E up \in BOOLEAN :
        \E reply \in IF up THEN ChatReplies
                     ELSE {ChatReply("fail", {}, NoSuggestion)} :
            \E r \in {chat_query(store, reply, up)} :
                /\ last' =
                     IF r.fault = "none"
                        /\ ( \/ ~({"query_interpretation", "explanation"}
                                    \subseteq r.keys)
                             \/ IF session = "cars.py"
                                THEN ~Printable(r.cars)
                                ELSE ~PrintableDetailed(r.cars) )
                     THEN [r EXCEPT !.status = "error", !.fault = "KeyError",
                                    !.front = session, !.line = line]
                     ELSE [r EXCEPT !.front = session, !.line = line]
                /\ UNCHANGED <<store, clock, nextOid, session>>

\* The three lines typed at the prompts of generate_cars_prompt.
TypedNumbers ==
    {<< <<"3">>, <<"2","0","1","5">>, <<"2","0","2","0">> >>,
     << <<"a">>, <<"2","0","1","5">>, <<"2","0","2","0">> >>,
     << <<"3">>, <<"2","0","1","5">>, <<"x">> >>}

\* What generate_cars_prompt prints for an exception: the first handler
\* takes ValueError, of which json.JSONDecodeError is a subclass.
PromptStatus ==
    [f \in Faults |-> IF f \in {"ValueError", "json"} THEN "validation"
                      ELSE "error"]

\* generate_cars_prompt (cars.py)
GenerateCarsPrompt ==
    \E line \in LinesFor("generate_cars_prompt"), typed \in TypedNumbers :
      \E base \in {[Outcome("generate_cars_prompt") EXCEPT
                       !.arg = typed, !.front = session, !.line = line]} :
        IF \E i \in 1..3 : ~IntParses(typed[i])
        THEN /\ last' = [base EXCEPT
                            !.status = PromptStatus["ValueError"],
                            !.fault = "ValueError", !.keys = {"error"}]
             /\ UNCHANGED <<store, clock, nextOid, session>>
        ELSE \E reply \in GenReplies(MaxStore - Len(store)) :
                \E up \in Reachability(Writes(reply)) :
                    GenerateAndStore(base, reply, up, "shown", PromptStatus,
                                     Printable(Stamped(reply.items, clock,
                                                       nextOid)))

\* A faulty variant of generate_cars_from_request_fault: the text of the
\* generator's reply is not parsed.
generate_cars_from_request_unparsed(interp, reply) ==
    CASE interp.kind = "fail" -> "model"
      [] interp.kind = "text" -> "json"
      [] reply.kind = "fail"  -> "model"
      [] OTHER -> "none"

\* The exception generate_cars_from_request re-raises ("none": it returns
\* the parsed array and the parsed parameters).
generate_cars_from_request_fault(interp, reply) ==
    CASE interp.kind = "fail" -> "model"
      [] interp.kind = "text" -> "json"
      [] reply.kind = "fail"  -> "model"
      [] reply.kind = "text"  -> "json"
      [] OTHER -> "none"

\* The replies generate_cars_from_request received.
RequestReplies(interp, reply) ==
    IF interp.kind = "object" THEN <<interp.kind, reply.kind>>
    ELSE <<interp.kind>>

\* The calls of generate_cars_from_request and of the insert_many after it.
RequestTrace(interp, reply) ==
    IF interp.kind = "fail" THEN <<"llm.invoke">>
    ELSE IF interp.kind = "text" THEN <<"llm.invoke", "json.loads">>
    ELSE <<"llm.invoke", "json.loads">> \o GenTrace(reply)

\* The generation branch of main (cars2.py): generate_cars_from_request,
\* insert_many, then the printing of the parameters and of the cars.
GenerationBranch ==
  \E line \in LinesFor("generation_request") :
   \E base \in {[Outcome("generation_request") EXCEPT
                    !.front = session, !.line = line]} :
    \E interp \in InterpReplies :
      \E reply \in IF interp.kind = "object"
                   THEN GenReplies(MaxStore - Len(store))
                   ELSE {GenReply("fail", <<>>)} :
        \E up \in Reachability(interp.kind = "object" /\ Writes(reply)) :
          \E gfault \in {generate_cars_from_request_fault(interp, reply)},
             ifault \in {insert_many_fault(reply, up)},
             docs \in {Stamped(reply.items, clock, nextOid)} :
            IF gfault # "none"
            THEN /\ last' = [base EXCEPT
                                !.status = "error", !.fault = gfault,
                                !.replies = RequestReplies(interp, reply),
                                !.keys = {"error"},
                                !.trace = RequestTrace(interp, reply)]
                 /\ UNCHANGED <<store, clock, nextOid, session>>
            ELSE IF ifault # "none"
            THEN /\ last' = [base EXCEPT
                                !.status = "error", !.fault = ifault,
                                !.replies = RequestReplies(interp, reply),
                                !.batch = reply.items, !.keys = {"error"},
                                !.trace = RequestTrace(interp, reply)]
                 /\ UNCHANGED <<store, clock, nextOid, session>>
            ELSE /\ store' = Inserted(docs)
                 /\ UNCHANGED session
                 /\ clock' = clock + Len(docs)
                 /\ nextOid' = nextOid + Len(docs)
                 /\ last' =
                      IF /\ {"year_start", "year_end", "categories",
                             "regions"} \subseteq interp.keys
                         /\ PrintableDetailed(docs)
                      THEN [base EXCEPT
                               !.status = "shown",
                               !.replies = RequestReplies(interp, reply),
                               !.batch = reply.items, !.cars = docs,
                               !.trace = RequestTrace(interp, reply)]
                      ELSE [base EXCEPT
                               !.status = "error", !.fault = "KeyError",
                               !.replies = RequestReplies(interp, reply),
                               !.batch = reply.items, !.cars = docs,
                               !.keys = {"error"},
                               !.trace = RequestTrace(interp, reply)]

\* The requests served while a terminal session lasts: the routes of app.py
\* answer at any time, and what they answer after the session has ended is what
\* they answer while it waits at its prompt.
Next ==
    \/ session \in Programs /\ GenerateCarsRoute
    \/ session \in Programs /\ GetCarsRoute
    \/ session \in Programs /\ GetCarRoute
    \/ BareCommand
    \/ InputRaises
    \/ ChatBranch
    \/ GenerateCarsPrompt
    \/ GenerationBranch

Spec == Init /\ [][Next]_vars

(***************************************************************************)
(* Properties.                                                             *)
(***************************************************************************)
GenerationOps == {"POST /generate_cars", "generate_cars_prompt",
                  "generation_request"}

\* find_all returned last.cars for last.filter.
FindAllReturned ==
    \/ last.op = "GET /cars" /\ last.status = "200"
    \/ last.op = "chat_query" /\ "matching_cars" \in last.keys

\* chat_query returned its response.
ChatReturned == last.op = "chat_query" /\ "matching_cars" \in last.keys

\* The record doc is among the records returned.
Returned(doc) == \E i \in 1..Len(last.cars) : last.cars[i] = doc

\* The year of doc is within the bounds that the filter f gives.
WithinYears(doc, f) ==
    /\ \A y \in f.year_min : y <= doc.year
    /\ \A y \in f.year_max : doc.year <= y

\* The string s contains the string a, letter case ignored.
Contains(s, a) ==
    \E i \in 0..(Len(s) - Len(a)) :
        Lower(SubSeq(s, i + 1, i + Len(a))) = Lower(a)

\* p[lo..hi] is one of the pieces of p between its bars (an empty piece has
\* hi = lo - 1).
IsPiece(p, lo, hi) ==
    /\ \A k \in lo..hi : p[k] # "|"
    /\ lo = 1 \/ p[lo - 1] = "|"
    /\ hi = Len(p) \/ p[hi + 1] = "|"

\* The string s contains one of the pieces of p, letter case ignored.
ContainsPiece(s, p) ==
    \E lo \in 1..(Len(p) + 1) : \E hi \in (lo - 1)..Len(p) :
        IsPiece(p, lo, hi) /\ Contains(s, SubSeq(p, lo, hi))

\* C1: find_all with year_min and year_max returns only records whose year
\* is within the bounds given, and every stored record within them that
\* passes the brand constraint; a bound that is omitted does not constrain.
C1_YearRange ==
    FindAllReturned =>
        /\ \A i \in 1..Len(last.cars) : WithinYears(last.cars[i], last.filter)
        /\ \A j \in 1..Len(store) :
              ( /\ WithinYears(store[j], last.filter)
                /\ \A p \in last.filter.brand : ContainsPiece(store[j].brand, p) )
              => Returned(store[j])

\* C1 witness: GET /cars with both bounds returned one of two stored records.
C1_Witness ==
    /\ last.op = "GET /cars"
    /\ last.filter.year_min = {2015}
    /\ last.filter.year_max = {2018}
    /\ Len(store) = 2
    /\ Len(last.cars) = 1

\* The generation request parsed the model's last reply to an array.
ParsedArray(o) ==
    /\ o.op \in GenerationOps
    /\ o.replies # <<>>
    /\ o.replies[Len(o.replies)] = "array"

\* A record of the requested shape, as the model writes it.
ValidRecord(c) ==
    InfoKeys \subseteq DOMAIN c /\ "timestamp" \notin DOMAIN c
    /\ "_id" \notin DOMAIN c

\* insert_many returned (it raised neither the driver's TypeError nor the
\* store's error) as many records as the batch has, each the car of the
\* batch with a timestamp and an identifier that no stored record had, and
\* the store grew by exactly these records.
StoredBatch(before, after, o) ==
    /\ o.fault \notin {"TypeError", "store"}
    /\ Len(o.cars) = Len(o.batch)
    /\ Len(after) = Len(before) + Len(o.batch)
    /\ after = before \o o.cars
    /\ \A i \in 1..Len(o.cars) :
          /\ {"timestamp", "_id"} \subseteq DOMAIN o.cars[i]
          /\ \A k \in DOMAIN o.batch[i] : o.cars[i][k] = o.batch[i][k]
          /\ \A j \in 1..Len(before) : before[j]["_id"] # o.cars[i]["_id"]
          /\ \A j \in 1..Len(o.cars) :
                o.cars[j]["_id"] = o.cars[i]["_id"] => j = i

\* C2 as stated: a generation request whose model output parses to an array
\* of n valid records (the store being reachable) leaves the store with
\* exactly n new records, which insert_many returns stamped and identified.
C2_Original ==
    [][ ( /\ ParsedArray(last')
          /\ \A i \in 1..Len(last'.batch) : ValidRecord(last'.batch[i])
          /\ last'.fault # "store" )
        => StoredBatch(store, store', last') ]_vars

\* C3: in every generation mode, a model reply that is not JSON makes the
\* request fail with the parse error, and leaves the store as it was.
C3_InvalidJson ==
    [][ ( /\ last'.op \in GenerationOps
          /\ \E i \in 1..Len(last'.replies) : last'.replies[i] = "text" )
        => /\ store' = store
           /\ last'.fault = "json"
           /\ last'.status \in {"500", "error", "validation"}
           /\ last'.cars = <<>> ]_vars

\* C3 witness: the free-text mode failed at its car-generation step, with
\* records in the store.
C3_Witness ==
    /\ last.op = "generation_request"
    /\ last.replies = <<"object", "text">>
    /\ last.fault = "json"
    /\ Len(store) > 0

\* C4 as stated: every record returned by find_all, find_one or chat_query
\* has an identifier of its own and a cost, a mileage and a year, and no
\* record without them is ever stored.
C4_Original ==
    /\ ( FindAllReturned \/ (last.op = "GET /car" /\ last.status = "200") )
        => \A i \in 1..Len(last.cars) :
              /\ {"_id", "cost", "mileage", "year"} \subseteq DOMAIN last.cars[i]
              /\ \A j \in 1..Len(last.cars) :
                    last.cars[j]["_id"] = last.cars[i]["_id"] => j = i
    /\ \A j \in 1..Len(store) :
          {"cost", "mileage", "year"} \subseteq DOMAIN store[j]

\* The statistics st are those the claim describes for the matches cars.
StatisticsOf(st, cars) ==
    /\ st.lowest_cost * st.average_cost.den <= st.average_cost.num
    /\ st.average_cost.num <= st.highest_cost * st.average_cost.den
    /\ st.total_matches = Len(cars)

\* C5 as stated: when chat_query returns, non-empty matching_cars come with
\* statistics such that lowest_cost <= average_cost <= highest_cost and
\* total_matches = len(matching_cars), and empty matching_cars come with no
\* statistics key.
C5_Original ==
    ChatReturned =>
        IF last.cars # <<>>
        THEN /\ "statistics" \in last.keys
             /\ Len(last.stats) = 1
             /\ StatisticsOf(last.stats[1], last.cars)
        ELSE "statistics" \notin last.keys

\* The brands of a suggested list.
SuggestedBrands(f) == UNION {{b[i] : i \in 1..Len(b)} : b \in f.brands}

\* C6 as stated: the filter derived from a non-empty list of suggested
\* brands matches a stored record if and only if its brand is one of them.
C6_Original ==
    (ChatReturned /\ TruthySeq(last.suggested.brands)) =>
        \A j \in 1..Len(store) :
            WithinYears(store[j], last.filter) =>
                ( Returned(store[j])
                  <=> \E b \in SuggestedBrands(last.suggested) :
                         Lower(store[j].brand) = Lower(b) )

\* C6 as amended: it matches a stored record if and only if its brand
\* contains one of the suggested brands, letter case ignored.
C6_Amended ==
    (ChatReturned /\ TruthySeq(last.suggested.brands)) =>
        \A j \in 1..Len(store) :
            WithinYears(store[j], last.filter) =>
                ( Returned(store[j])
                  <=> \E b \in SuggestedBrands(last.suggested) :
                         Contains(store[j].brand, b) )

\* C6 witness: the suggestion of Toyota and Honda returned one brand of a
\* store that holds a Ford as well.
C6_Witness ==
    /\ ChatReturned
    /\ last.suggested.brands = {<<Toyota, Honda>>}
    /\ Len(last.cars) = 1
    /\ \E j \in 1..Len(store) : store[j].brand = Ford

\* C7 as stated: find_all with a brand filter returns exactly the records
\* whose brand contains the filter string, letter case ignored.
C7_Original ==
    (FindAllReturned /\ last.filter.brand # {}) =>
        \A j \in 1..Len(store) :
            WithinYears(store[j], last.filter) =>
                ( Returned(store[j])
                  <=> \A p \in last.filter.brand : Contains(store[j].brand, p) )

\* C7 as amended: it returns exactly the records whose brand the filter
\* matches as a regular expression, letter case ignored: those that contain
\* the filter string when it has no bar, those that contain one of its
\* alternatives when it has.
C7_Amended ==
    (FindAllReturned /\ last.filter.brand # {}) =>
        \A j \in 1..Len(store) :
            WithinYears(store[j], last.filter) =>
                ( Returned(store[j])
                  <=> \A p \in last.filter.brand :
                         ContainsPiece(store[j].brand, p) )

\* C7 witness: the filter "toy" returned a Toyota and left another brand.
C7_Witness ==
    /\ last.op = "GET /cars"
    /\ last.filter.brand = {<<"t","o","y">>}
    /\ Len(store) = 2
    /\ Len(last.cars) = 1
    /\ last.cars[1].brand = Toyota

\* No stored record has the identifier that the string s writes.
Absent(s) == \A j \in 1..Len(store) : store[j]["_id"] # Lower(s)

\* C8 as stated: find_one with an identifier that is not in the store
\* returns the not-found value, and raises only when the store fails.
C8_Original ==
    (last.op = "GET /car" /\ Absent(last.arg)) =>
        /\ last.fault \in {"none", "store"}
        /\ last.fault = "none" => last.cars = <<>>

\* C9 as stated: GET /car/<id> for an identifier that is not in the store
\* answers 404 with an error body, and 500 only for an internal failure.
C9_Original ==
    last.op = "GET /car" =>
        /\ (Absent(last.arg) /\ last.fault # "store")
              => last.status = "404" /\ last.keys = {"error"}
        /\ last.status = "500" => last.fault \in {"store", "model"}

\* The sequence q starts with the sequence p.
IsPrefix(p, q) == Len(p) <= Len(q) /\ \A i \in 1..Len(p) : q[i] = p[i]

\* C10: a stored record is never deleted and never changes: every step keeps
\* the stored records as they are, and find_all, find_one and chat_query
\* leave the store as it is.
C10_Monotonic ==
    [][ /\ IsPrefix(store, store')
        /\ last'.op \in {"GET /cars", "GET /car", "chat_query"}
              => store' = store ]_vars

\* C10 witness: two records stored by two requests, then read by chat_query.
C10_Witness ==
    /\ Len(store) = 2
    /\ ChatReturned
    /\ Len(last.cars) = 2
    /\ last.cars = store

\* A terminal program took a non-empty line at its prompt.
LineTaken == last.front \in Programs /\ last.line # <<>>

\* The line is one of the bare commands help, clear and exit, in any case.
IsBareCommand(line) ==
    Lower(line) \in {<<"h","e","l","p">>, <<"c","l","e","a","r">>,
                     <<"e","x","i","t">>}

\* The bare command was taken by its own branch, which asks nothing of the
\* model and nothing of the store.
CommandBypasses ==
    /\ last.op \in {"help", "clear", "exit"}
    /\ Lower(last.line) = <<"h","e","l","p">> => last.op = "help"
    /\ Lower(last.line) = <<"c","l","e","a","r">> => last.op = "clear"
    /\ Lower(last.line) = <<"e","x","i","t">> => last.op = "exit"
    /\ last.trace = <<>>
    /\ last.replies = <<>>

\* The line contains generate, create or make, in any case.
HasGenerationVerb(line) ==
    \E w \in {<<"g","e","n","e","r","a","t","e">>,
              <<"c","r","e","a","t","e">>, <<"m","a","k","e">>} :
        Contains(line, w)

\* C11 as stated: in both terminal programs a non-empty line that is help,
\* clear or exit calls neither pipeline; any other line that contains
\* generate, create or make goes to the free-text Generation Pipeline, and
\* every other line to the Query Pipeline.
C11_Original ==
    LineTaken =>
        IF IsBareCommand(last.line) THEN CommandBypasses
        ELSE IF HasGenerationVerb(last.line)
        THEN last.op = "generation_request"
        ELSE last.op = "chat_query"

\* C11 as amended: that is the dispatch of cars2.py; in cars.py a line that
\* is generate (in any case) starts the direct-mode dialogue of
\* generate_cars_prompt, and every other line that is no bare command goes to
\* the Query Pipeline, the lines containing a generation verb included.
C11_Amended ==
    LineTaken =>
        IF IsBareCommand(last.line) THEN CommandBypasses
        ELSE IF last.front = "cars2.py"
        THEN IF HasGenerationVerb(last.line)
             THEN last.op = "generation_request"
             ELSE last.op = "chat_query"
        ELSE IF Lower(last.line) = <<"g","e","n","e","r","a","t","e">>
             THEN last.op = "generate_cars_prompt"
             ELSE last.op = "chat_query"

\* C11 witness: cars2.py took a line that contains make, and is not make, to
\* the free-text Generation Pipeline, which stored a car.
C11_Witness ==
    /\ last.front = "cars2.py"
    /\ last.line = <<"r","e","m","a","k","e">>
    /\ last.op = "generation_request"
    /\ last.cars # <<>>

\* The text is a decimal number.
Numeric(t) ==
    t # <<>> /\ \A k \in 1..Len(t) :
                  t[k] \in {"0","1","2","3","4","5","6","7","8","9"}

\* The caller gave a year or a count that is no number: in the query string
\* of GET /cars, in the body of POST /generate_cars, or at the prompts of the
\* terminal dialogue.
MalformedInput ==
    \/ /\ last.op = "GET /cars"
       /\ \E i \in 1..Len(last.arg) :
             last.arg[i] # <<>> /\ ~Numeric(last.arg[i])
    \/ last.op = "POST /generate_cars" /\ ~Numeric(last.arg)
    \/ /\ last.op = "generate_cars_prompt"
       /\ \E i \in 1..Len(last.arg) : ~Numeric(last.arg[i])

\* C12 as stated: a year or count that is no number is answered by the front
\* end with a message, before the model is asked anything and with nothing
\* stored, in the terminal dialogue, in POST /generate_cars and in GET /cars.
C12_Original ==
    MalformedInput =>
        /\ last.keys = {"error"}
        /\ last.trace = <<>>
        /\ last.replies = <<>>
        /\ last.batch = <<>>
        /\ last.cars = <<>>

\* C13 as stated: chat_query gives the store filter every year_min and
\* year_max that the model suggests and that is not null, 0 included, and
\* leaves out a key only when its suggested value is null or absent.
C13_Original ==
    ChatReturned =>
        /\ last.filter.year_min = last.suggested.year_min
        /\ last.filter.year_max = last.suggested.year_max

\* The steps of chat_query in their order.
ChatSteps == <<"store.find", "llm.invoke", "json.loads", "store.find">>

\* C14: every chat_query, whatever was asked before, reads the whole
\* inventory, then invokes the model once, then parses its text, then reads
\* the store once more with the filter; it stops at the step that fails,
\* takes no step twice, and returns the records that the store holds now.
C14_StepOrder ==
    last.op = "chat_query" =>
        /\ last.trace # <<>>
        /\ IsPrefix(last.trace, ChatSteps)
        /\ Len(last.replies) = (IF Len(last.trace) >= 2 THEN 1 ELSE 0)
        /\ Len(last.trace) =
              CASE last.fault = "store" -> 1
                [] last.fault = "model" -> 2
                [] last.fault \in {"json", "AttributeError"} -> 3
                [] OTHER -> 4
        /\ (last.fault = "json") = (last.replies = <<"text">>)
        /\ (last.fault = "model") = (last.replies = <<"fail">>)
        /\ ChatReturned =>
              \A i \in 1..Len(last.cars) :
                  \E j \in 1..Len(store) : store[j] = last.cars[i]

\* C14 witness: on a store with records, chat_query stopped at the parse of
\* a reply that is not JSON.
C14_Witness ==
    /\ last.op = "chat_query"
    /\ last.front = "cars2.py"
    /\ last.fault = "json"
    /\ last.trace = <<"store.find", "llm.invoke", "json.loads">>
    /\ Len(store) > 0

\* The record passes the suggested brands and years; max_cost is not looked
\* at. A list of brands that is empty and a year that is 0 constrain
\* nothing.
SuggestedMatch(doc, f) ==
    /\ \A b \in f.brands :
          b # <<>> => \E i \in 1..Len(b) : Contains(doc.brand, b[i])
    /\ \A y \in f.year_min : y # 0 => doc.year >= y
    /\ \A y \in f.year_max : y # 0 => doc.year <= y

\* C15: the matching_cars of chat_query are the stored records that pass the
\* suggested brands, year_min and year_max, whatever max_cost the model
\* suggests, and the statistics are computed over all of them.
C15_MaxCostIgnored ==
    ChatReturned =>
        /\ \A j \in 1..Len(store) :
              Returned(store[j]) <=> SuggestedMatch(store[j], last.suggested)
        /\ last.cars # <<>> =>
              /\ Len(last.stats) = 1
              /\ last.stats[1].total_matches = Len(last.cars)
              /\ \A i \in 1..Len(last.cars) :
                    last.cars[i].cost <= last.stats[1].highest_cost

\* C15 witness: with max_cost 15000 suggested, chat_query returned a record
\* that costs more, and counted it in the statistics.
C15_Witness ==
    /\ ChatReturned
    /\ last.suggested.max_cost = {15000}
    /\ \E i \in 1..Len(last.cars) : last.cars[i].cost > 15000
    /\ Len(last.stats) = 1
    /\ last.stats[1].highest_cost > 15000

\* A request of a terminal program failed.
RequestFailed(o) ==
    /\ o.op \in {"chat_query", "generate_cars_prompt", "generation_request"}
    /\ o.fault # "none"

\* C16 as stated: a request that fails is answered with an error and the
\* loop goes on at its prompt; the loop ends only on the exit command or on
\* a keyboard interrupt.
C16_Original ==
    [][ /\ RequestFailed(last') =>
              /\ session' \in Programs
              /\ session' = session
              /\ last'.status \in {"error", "validation"}
        /\ session' # session =>
              last'.op \in {"exit", "KeyboardInterrupt"} ]_vars

\* C16 as amended: the loop ends only on the exit command, on a keyboard
\* interrupt, or at the end of the input, where input() raises an EOFError
\* that main does not catch.
C16_Amended ==
    [][ /\ RequestFailed(last') =>
              /\ session' \in Programs
              /\ session' = session
              /\ last'.status \in {"error", "validation"}
        /\ session' # session =>
              /\ session' = "ended"
              /\ last'.op \in {"exit", "KeyboardInterrupt", "EOFError"} ]_vars

\* C16 witness: a generation request of cars2.py failed at the store, with
\* the session still at its prompt.
C16_Witness ==
    /\ last.op = "generation_request"
    /\ last.fault = "store"
    /\ last.status = "error"
    /\ session = "cars2.py"

=============================================================================
